---- MODULE Spec2Model ----
(***************************************************************************)
(* A model of elf::File::parse (src/elf/file.rs): the decoder of an ELF    *)
(* object file from a seekable byte source into a file header and a        *)
(* name-keyed table of sections.                                           *)
(*                                                                         *)
(* The byte source is a sequence of bytes and a cursor.  Unsigned integers *)
(* of 16, 32 and 64 bits are kept as their base-256 digits, least          *)
(* significant digit first, so that a 64-bit field keeps its full width.   *)
(* A String is the sequence of its characters; `u8 as char` maps the byte  *)
(* b to the character U+00b, so a name is kept as the sequence of bytes.   *)
(***************************************************************************)
EXTENDS Integers, Sequences, FiniteSets, TLC

\* ------------------------------------------------------------------------
\* Constants of elf::types
\* ------------------------------------------------------------------------
ELFMAG == <<127, 69, 76, 70>>
EI_NIDENT == 16
EI_CLASS == 4
EI_DATA == 5
EI_OSABI == 7
EI_ABIVERSION == 8
ELFCLASS32 == 1
ELFCLASS64 == 2
ELFDATA2LSB == 1
ELFDATA2MSB == 2

\* ------------------------------------------------------------------------
\* Bounds of the inputs
\* ------------------------------------------------------------------------
MaxShnum == 2
MaxNameIdx == 1
MaxSize == 3

\* ------------------------------------------------------------------------
\* Sequences of bytes and fixed-width unsigned integers
\* ------------------------------------------------------------------------
Min(a, b) == IF a < b THEN a ELSE b
Max(a, b) == IF a > b THEN a ELSE b

Zeros(n) == [i \in 1..n |-> 0]

Reverse(s) == [i \in 1..Len(s) |-> s[Len(s) + 1 - i]]

\* The digits of the natural number n as an unsigned integer of w bytes.
Digits(n, w) ==
    [i \in 1..w |->
        IF i = 1 THEN n % 256
        ELSE IF i = 2 THEN (n \div 256) % 256
        ELSE IF i = 3 THEN (n \div 65536) % 256
        ELSE 0]

\* A position no source of the model reaches: 2^24.
Beyond == 256 * 256 * 256

\* `x as usize` and the u64 argument of SeekFrom::Start, as a natural number.
\* Every use compares the result with the length of a buffer, so a value of
\* 2^24 or more is kept as 2^24.
ToUsize(d) ==
    IF \E i \in 4..Len(d) : d[i] # 0 THEN Beyond
    ELSE (IF Len(d) >= 1 THEN d[1] ELSE 0)
         + (IF Len(d) >= 2 THEN 256 * d[2] ELSE 0)
         + (IF Len(d) >= 3 THEN 65536 * d[3] ELSE 0)

\* `x as u64` of a u32 (or u16): zero extension to eight digits.
MutAsU64(d) ==
    d \o [i \in 1..(8 - Len(d)) |-> IF d[Len(d)] >= 128 THEN 255 ELSE 0]

AsU64(d) == d \o Zeros(8 - Len(d))

\* ------------------------------------------------------------------------
\* The endian-aware primitive reader: the macros read_u16!, read_u32! and
\* read_u64! over byteorder's read_uN::<LittleEndian|BigEndian>, which are
\* read_exact of w bytes.  err is "" on success.
\* ------------------------------------------------------------------------
ReadUint(data, s, p, w) ==
    IF data \notin {ELFDATA2LSB, ELFDATA2MSB}
    THEN [err |-> "invalid endianness", val |-> <<>>, pos |-> p]
    ELSE IF p + w > Len(s)
    THEN [err |-> "UnexpectedEof", val |-> <<>>, pos |-> Max(p, Len(s))]
    ELSE [err |-> "",
          val |-> IF data = ELFDATA2LSB
                  THEN SubSeq(s, p + 1, p + w)
                  ELSE Reverse(SubSeq(s, p + 1, p + w)),
          pos |-> p + w]

\* A run of consecutive try!(read_uN!(data, r)) of the widths ws: the values
\* read, or the error of the first read that fails.
RECURSIVE ReadFields(_, _, _, _)
ReadFields(data, s, p, ws) ==
    IF ws = <<>> THEN [err |-> "", vals |-> <<>>, pos |-> p]
    ELSE LET r == ReadUint(data, s, p, Head(ws))
         IN  IF r.err # "" THEN [err |-> r.err, vals |-> <<>>, pos |-> r.pos]
             ELSE LET rest == ReadFields(data, s, r.pos, Tail(ws))
                  IN  [err |-> rest.err,
                       vals |-> IF rest.err # "" THEN <<>>
                                ELSE <<r.val>> \o rest.vals,
                       pos |-> rest.pos]

\* ------------------------------------------------------------------------
\* get_elf_string: the name at offset start of a string table.  `end` stays
\* 0 when the scan from start finds no zero byte; `end - start` then
\* underflows for start > 0 (a panic: "attempt to subtract with overflow"
\* with overflow checks, "capacity overflow" in String::with_capacity
\* without them, start being below 2^32).
\* ------------------------------------------------------------------------
ScanEnd(bytes, start) ==
    IF \E i \in start..(Len(bytes) - 1) : bytes[i + 1] = 0
    THEN CHOOSE i \in start..(Len(bytes) - 1) :
            /\ bytes[i + 1] = 0
            /\ \A j \in start..(i - 1) : bytes[j + 1] # 0
    ELSE 0

get_elf_string(bytes, start) ==
    LET end == ScanEnd(bytes, start)
    IN  IF end < start
        THEN [panic |-> TRUE, str |-> <<>>]
        ELSE [panic |-> FALSE, str |-> SubSeq(bytes, start + 1, end)]

\* ------------------------------------------------------------------------
\* The steps of File::parse
\* ------------------------------------------------------------------------

\* r.read(&mut eident) on a source that does not fail: as many bytes as the
\* source has from the cursor, at most 16; the rest of eident stays 0.
ReadIdentBytes(s, p) ==
    LET n == Min(EI_NIDENT, Max(0, Len(s) - p))
    IN  [n |-> n, eident |-> SubSeq(s, p + 1, p + n) \o Zeros(EI_NIDENT - n)]

\* eident[0..4] != types::ELFMAG, negated.
MutMagicOk(id) == SubSeq(id, 1, 3) = SubSeq(ELFMAG, 1, 3)

MagicOk(id) == SubSeq(id, 1, 4) = ELFMAG

\* The arms of `match class`: the width in bytes of the class-dependent
\* fields, 0 for the arm that fails.
MutClassWidth(class) == IF class = ELFCLASS32 THEN 4 ELSE 8

ClassWidth(class) ==
    IF class = ELFCLASS32 THEN 4
    ELSE IF class = ELFCLASS64 THEN 8
    ELSE 0

\* A class-dependent field as the u64 the code stores.
Widen(class, v) == IF class = ELFCLASS32 THEN AsU64(v) ELSE v

\* A u16 as a natural number.
U16(d) == d[1] + 256 * d[2]

NoHeader ==
    [elf_type |-> <<>>, machine |-> <<>>, version |-> <<>>, entry |-> <<>>,
     phoff |-> <<>>, shoff |-> <<>>, flags |-> <<>>, ehsize |-> 0,
     phentsize |-> 0, phnum |-> 0, shentsize |-> 0, shnum |-> 0,
     shstrndx |-> 0]

\* Lines 84-112: the fields of the file header after the identification
\* block.
ParseFileHeader(class, data, s, p) ==
    LET a == ReadFields(data, s, p, <<2, 2, 4>>)
        w == ClassWidth(class)
        b == ReadFields(data, s, a.pos, <<w, w, w>>)
        c == ReadFields(data, s, b.pos, <<4, 2, 2, 2, 2, 2, 2>>)
    IN  IF a.err # "" THEN [err |-> a.err, pos |-> a.pos, h |-> NoHeader]
        ELSE IF w = 0 THEN [err |-> "invalid class", pos |-> a.pos, h |-> NoHeader]
        ELSE IF b.err # "" THEN [err |-> b.err, pos |-> b.pos, h |-> NoHeader]
        ELSE IF c.err # "" THEN [err |-> c.err, pos |-> c.pos, h |-> NoHeader]
        ELSE [err |-> "", pos |-> c.pos,
              h |-> [elf_type |-> a.vals[1], machine |-> a.vals[2],
                     version |-> a.vals[3],
                     entry |-> Widen(class, b.vals[1]),
                     phoff |-> Widen(class, b.vals[2]),
                     shoff |-> Widen(class, b.vals[3]),
                     flags |-> c.vals[1], ehsize |-> U16(c.vals[2]),
                     phentsize |-> U16(c.vals[3]), phnum |-> U16(c.vals[4]),
                     shentsize |-> U16(c.vals[5]), shnum |-> U16(c.vals[6]),
                     shstrndx |-> U16(c.vals[7])]]

NoSectionHeader ==
    [name |-> <<>>, shtype |-> <<>>, flags |-> <<>>, addr |-> <<>>,
     offset |-> <<>>, size |-> <<>>, link |-> <<>>, info |-> <<>>,
     addralign |-> <<>>, entsize |-> <<>>]

\* Lines 133-170: one record of the section header table; the name is the
\* empty String until the names are resolved.
ParseSectionHeader(class, data, s, p) ==
    LET a == ReadFields(data, s, p, <<4, 4>>)
        w == ClassWidth(class)
        b == ReadFields(data, s, a.pos, <<w, w, w, w, 4, 4, w, w>>)
    IN  IF a.err # ""
        THEN [err |-> a.err, pos |-> a.pos, name_idx |-> <<>>, h |-> NoSectionHeader]
        ELSE IF b.err # ""
        THEN [err |-> b.err, pos |-> b.pos, name_idx |-> <<>>, h |-> NoSectionHeader]
        ELSE [err |-> "", pos |-> b.pos, name_idx |-> a.vals[1],
              h |-> [name |-> <<>>, shtype |-> a.vals[2],
                     flags |-> Widen(class, b.vals[1]),
                     addr |-> Widen(class, b.vals[2]),
                     offset |-> Widen(class, b.vals[3]),
                     size |-> Widen(class, b.vals[4]),
                     link |-> b.vals[5], info |-> b.vals[6],
                     addralign |-> Widen(class, b.vals[7]),
                     entsize |-> Widen(class, b.vals[8])]]

\* Line 177: r.bytes().map(|x| x.unwrap()).take(size as usize).collect() on a
\* source that does not fail: the bytes from the cursor, at most size of
\* them; the iterator ends at the end of the source.
TakeBytes(s, p, size) ==
    SubSeq(s, p + 1, p + Min(size, Max(0, Len(s) - p)))

\* `for _ in 0..n`: the phase entered when a loop of n iterations is next.
MutLoopOrSkip(ph, n) == ph

LoopOrSkip(ph, n) == IF n = 0 THEN "ret" ELSE ph

\* HashMap::insert: the value of an existing key is replaced.
MutInsert(m, k, v) ==
    [n \in DOMAIN m \cup {k} |-> IF n \in DOMAIN m THEN m[n] ELSE v]

Insert(m, k, v) ==
    [n \in DOMAIN m \cup {k} |-> IF n = k THEN v ELSE m[n]]

EmptyMap == [n \in {} |-> 0]

\* ------------------------------------------------------------------------
\* The inputs: ELF images laid out as File::parse reads them, possibly
\* malformed or cut short.
\* ------------------------------------------------------------------------

\* The bytes of an unsigned integer in the byte order d.
Enc(d, v) == IF d = ELFDATA2MSB THEN Reverse(v) ELSE v

\* The w low digits of v.
Pad(v, w) == [k \in 1..w |-> IF k <= Len(v) THEN v[k] ELSE 0]

\* Width of the class-dependent fields in an image of class c.
LayoutWidth(c) == IF c = ELFCLASS32 THEN 4 ELSE 8

EhdrSize(c) == 40 + 3 * LayoutWidth(c)
ShdrSize(c) == 16 + 6 * LayoutWidth(c)

EhdrBytes(magic, c, d, entry, shnum, shstrndx) ==
    LET w == LayoutWidth(c)
    IN  magic \o <<c, d, 1, 0, 0>> \o Zeros(7)
        \o Enc(d, Digits(2, 2)) \o Enc(d, Digits(3, 2)) \o Enc(d, Digits(1, 4))
        \o Enc(d, Pad(entry, w)) \o Enc(d, Zeros(w))
        \o Enc(d, Digits(EhdrSize(c), w))
        \o Enc(d, Zeros(4)) \o Enc(d, Digits(EhdrSize(c), 2))
        \o Enc(d, Zeros(2)) \o Enc(d, Zeros(2))
        \o Enc(d, Digits(ShdrSize(c), 2))
        \o Enc(d, Digits(shnum, 2)) \o Enc(d, Digits(shstrndx, 2))

ShdrBytes(c, d, sec) ==
    LET w == LayoutWidth(c)
    IN  Enc(d, Digits(sec.name_idx, 4)) \o Enc(d, Digits(1, 4))
        \o Enc(d, Zeros(w)) \o Enc(d, Pad(sec.addr, w))
        \o Enc(d, Pad(sec.offset, w)) \o Enc(d, Pad(sec.size, w))
        \o Enc(d, Zeros(4)) \o Enc(d, Zeros(4))
        \o Enc(d, Digits(1, w)) \o Enc(d, Zeros(w))

RECURSIVE ShdrTable(_, _, _)
ShdrTable(c, d, secs) ==
    IF secs = <<>> THEN <<>>
    ELSE ShdrBytes(c, d, Head(secs)) \o ShdrTable(c, d, Tail(secs))

\* The bytes that follow the section header table: a string table.
StrTab == <<97, 0, 98, 0>>

Image(magic, c, d, entry, shnum, shstrndx, secs) ==
    EhdrBytes(magic, c, d, entry, shnum, shstrndx) \o ShdrTable(c, d, secs) \o StrTab

Cut(s, n) == SubSeq(s, 1, Min(n, Len(s)))

Magics == {ELFMAG, <<127, 69, 76, 71>>, <<0, 69, 76, 70>>}
ClassBytes == {0, ELFCLASS32, ELFCLASS64, 3}
DataBytes == {0, ELFDATA2LSB, ELFDATA2MSB, 3}
WideValues ==
    {<<120, 86, 52, 18, 0, 0, 0, 0>>,
     <<0, 0, 0, 128, 0, 0, 0, 0>>,
     <<255, 255, 255, 255, 1, 0, 0, 128>>}
CutLengths == {0, 3, 16, 20, 24, 40, 60, 200}
StartPositions == {0, 5}

\* Images with any identification block and no section table, cut short.
HeaderImage(s) ==
    \E m \in Magics, c \in ClassBytes, d \in DataBytes, n \in 0..1,
       x \in {0, MaxShnum}, len \in CutLengths :
        s = Cut(Image(m, c, d, Digits(4096, 8), n, x, <<>>), len)

\* Offset of the bytes that follow a table of n section headers.
DataStart(c, n) == EhdrSize(c) + n * ShdrSize(c)

\* Sections of the sizes zs laid out one after the other from offset off.
RECURSIVE Layout(_, _, _)
Layout(off, idxs, zs) ==
    IF zs = <<>> THEN <<>>
    ELSE <<[name_idx |-> Head(idxs), addr |-> Digits(4096, 8),
            offset |-> Digits(off, 8), size |-> Digits(Head(zs), 8)]>>
         \o Layout(off + Head(zs), Tail(idxs), Tail(zs))

\* Well-formed headers with 1..MaxShnum sections over the string table.
SectionImage(s) ==
    \E c \in {ELFCLASS32, ELFCLASS64}, d \in {ELFDATA2LSB, ELFDATA2MSB},
       n \in 1..MaxShnum :
        \E x \in 0..MaxShnum, idxs \in [1..n -> 0..MaxNameIdx],
           zs \in [1..n -> 0..MaxSize] :
            s = Image(ELFMAG, c, d, Digits(4096, 8), n, x,
                      Layout(DataStart(c, n), idxs, zs))

\* One section whose address, offset and size use the full field width.
WideImage(s) ==
    \E c \in {ELFCLASS32, ELFCLASS64}, d \in {ELFDATA2LSB, ELFDATA2MSB},
       e \in WideValues, a \in WideValues, o \in WideValues, z \in WideValues :
        s = Image(ELFMAG, c, d, e, 1, 0,
                  <<[name_idx |-> 0, addr |-> a, offset |-> o, size |-> z]>>)

\* ------------------------------------------------------------------------
\* State
\* ------------------------------------------------------------------------
VARIABLES
    src,            \* the bytes of the source r
    pos,            \* the cursor of r
    pc,             \* the position of File::parse
    eident,         \* the identification block
    id,             \* class, data, os_abi, abi_version
    hdr,            \* the fields of the file header read so far
    name_idxs,      \* Vec<u32>
    sections_lst,   \* Vec<SectionHeader>
    sections_data,  \* Vec<Vec<u8>>
    i,              \* the index of the running loop
    sections,       \* HashMap<String, Section>
    result,         \* "" while running, "ok", or the Err or the panic
    file,           \* the File returned
    hi,             \* one past the last byte of r consumed so far
    faulted         \* whether a seek or a read of r returned an error

vars == <<src, pos, pc, eident, id, hdr, name_idxs, sections_lst,
          sections_data, i, sections, result, file, hi, faulted>>

NoId == [class |-> 0, data |-> 0, os_abi |-> 0, abi_version |-> 0]
NoFileHeader ==
    [class |-> 0, data |-> 0, version |-> <<>>, os_abi |-> 0, abi_version |-> 0,
     elf_type |-> <<>>, machine |-> <<>>, entrypoint |-> <<>>]
NoFile == [present |-> FALSE, hdr |-> NoFileHeader, sections |-> EmptyMap]

Init ==
    /\ \/ HeaderImage(src)
       \/ SectionImage(src)
       \/ WideImage(src)
    /\ pos \in StartPositions
    /\ pc = "seek0"
    /\ eident = Zeros(EI_NIDENT)
    /\ id = NoId
    /\ hdr = NoHeader
    /\ name_idxs = <<>>
    /\ sections_lst = <<>>
    /\ sections_data = <<>>
    /\ i = 0
    /\ sections = EmptyMap
    /\ result = ""
    /\ file = NoFile
    /\ hi = 0
    /\ faulted = FALSE

\* return Err(e), or a panic: parse ends and no File exists.
Fail(e) ==
    /\ result' = e
    /\ pc' = "done"

\* ------------------------------------------------------------------------
\* File::parse on a source whose seeks and reads succeed
\* ------------------------------------------------------------------------

\* Line 71: r.seek(SeekFrom::Start(0)).
SeekStart ==
    /\ pc = "seek0"
    /\ pos' = 0
    /\ pc' = "ident"
    /\ UNCHANGED <<src, eident, id, hdr, name_idxs, sections_lst,
                   sections_data, i, sections, result, file, hi, faulted>>

\* Lines 72-73: try!(r.read(&mut eident)).
ReadIdent ==
    /\ pc = "ident"
    /\ LET r == ReadIdentBytes(src, pos)
       IN  /\ eident' = r.eident
           /\ pos' = pos + r.n
           /\ hi' = Max(hi, pos + r.n)
    /\ pc' = "magic"
    /\ UNCHANGED <<src, id, hdr, name_idxs, sections_lst, sections_data, i,
                   sections, result, file, faulted>>

\* Lines 75-82: the magic number, then class, data, os_abi, abi_version.
CheckMagic ==
    /\ pc = "magic"
    /\ IF ~MagicOk(eident)
       THEN /\ Fail("invalid magic number")
            /\ UNCHANGED id
       ELSE /\ id' = [class |-> eident[EI_CLASS + 1],
                      data |-> eident[EI_DATA + 1],
                      os_abi |-> eident[EI_OSABI + 1],
                      abi_version |-> eident[EI_ABIVERSION + 1]]
            /\ pc' = "hdr"
            /\ UNCHANGED result
    /\ UNCHANGED <<src, pos, eident, hdr, name_idxs, sections_lst,
                   sections_data, i, sections, file, hi, faulted>>

\* Lines 84-112: the file header.
ReadFileHeader ==
    /\ pc = "hdr"
    /\ LET r == ParseFileHeader(id.class, id.data, src, pos)
       IN  /\ pos' = r.pos
           /\ hi' = Max(hi, r.pos)
           /\ hdr' = r.h
           /\ IF r.err # "" THEN Fail(r.err)
              ELSE pc' = "shseek" /\ UNCHANGED result
    /\ UNCHANGED <<src, eident, id, name_idxs, sections_lst, sections_data,
                   i, sections, file, faulted>>

\* Lines 114-119: try!(r.seek(SeekFrom::Start(shoff))).
SeekShoff ==
    /\ pc = "shseek"
    /\ pos' = ToUsize(hdr.shoff)
    /\ i' = 0
    /\ pc' = LoopOrSkip("shdr", hdr.shnum)
    /\ UNCHANGED <<src, eident, id, hdr, name_idxs, sections_lst,
                   sections_data, sections, result, file, hi, faulted>>

\* Lines 121-171: one iteration of the loop over the section header table.
ReadSectionHeader ==
    /\ pc = "shdr"
    /\ LET r == ParseSectionHeader(id.class, id.data, src, pos)
       IN  /\ pos' = r.pos
           /\ hi' = Max(hi, r.pos)
           /\ IF r.err # ""
              THEN /\ Fail(r.err)
                   /\ UNCHANGED <<name_idxs, sections_lst, i>>
              ELSE /\ name_idxs' = Append(name_idxs, r.name_idx)
                   /\ sections_lst' = Append(sections_lst, r.h)
                   /\ i' = IF i + 1 >= hdr.shnum THEN 0 ELSE i + 1
                   /\ pc' = IF i + 1 >= hdr.shnum THEN "load" ELSE "shdr"
                   /\ UNCHANGED result
    /\ UNCHANGED <<src, eident, id, hdr, sections_data, sections, file,
                   faulted>>

\* Lines 173-179: one iteration of the loop that loads the payloads.
LoadSectionData ==
    /\ pc = "load"
    /\ LET off == ToUsize(sections_lst[i + 1].offset)
           size == ToUsize(sections_lst[i + 1].size)
           bytes == TakeBytes(src, off, size)
       IN  /\ sections_data' = Append(sections_data, bytes)
           /\ pos' = off + Len(bytes)
           /\ hi' = IF Len(bytes) > 0 THEN Max(hi, off + Len(bytes)) ELSE hi
    /\ i' = IF i + 1 >= hdr.shnum THEN 0 ELSE i + 1
    /\ pc' = IF i + 1 >= hdr.shnum THEN "names" ELSE "load"
    /\ UNCHANGED <<src, eident, id, hdr, name_idxs, sections_lst, sections,
                   result, file, faulted>>

\* Lines 181-183: one iteration of the loop that resolves the names.
\* sections_data[shstrndx] panics when shstrndx is out of range.
ResolveName ==
    /\ pc = "names"
    /\ IF hdr.shstrndx >= Len(sections_data)
       THEN /\ Fail("panic: index out of bounds")
            /\ UNCHANGED <<sections_lst, i>>
       ELSE LET s == get_elf_string(sections_data[hdr.shstrndx + 1],
                                    ToUsize(name_idxs[i + 1]))
            IN  IF s.panic
                THEN /\ Fail("panic: arithmetic overflow")
                     /\ UNCHANGED <<sections_lst, i>>
                ELSE /\ sections_lst' =
                            [sections_lst EXCEPT ![i + 1].name = s.str]
                     /\ i' = IF i + 1 >= hdr.shnum THEN 0 ELSE i + 1
                     /\ pc' = IF i + 1 >= hdr.shnum THEN "insert" ELSE "names"
                     /\ UNCHANGED result
    /\ UNCHANGED <<src, pos, eident, id, hdr, name_idxs, sections_data,
                   sections, file, hi, faulted>>

\* Lines 185-187: one iteration of the loop that fills the HashMap.
InsertSection ==
    /\ pc = "insert"
    /\ sections' = Insert(sections, sections_lst[i + 1].name,
                          [hdr |-> sections_lst[i + 1],
                           data |-> sections_data[i + 1]])
    /\ i' = i + 1
    /\ pc' = IF i + 1 >= Len(sections_lst) THEN "ret" ELSE "insert"
    /\ UNCHANGED <<src, pos, eident, id, hdr, name_idxs, sections_lst,
                   sections_data, result, file, hi, faulted>>

\* Lines 189-201: Ok(File { hdr, sections }).
ReturnOk ==
    /\ pc = "ret"
    /\ file' = [present |-> TRUE,
                hdr |-> [class |-> id.class, data |-> id.data,
                         version |-> hdr.version, os_abi |-> id.os_abi,
                         abi_version |-> id.abi_version,
                         elf_type |-> hdr.elf_type, machine |-> hdr.machine,
                         entrypoint |-> hdr.entry],
                sections |-> sections]
    /\ result' = "ok"
    /\ pc' = "done"
    /\ UNCHANGED <<src, pos, eident, id, hdr, name_idxs, sections_lst,
                   sections_data, i, sections, hi, faulted>>

Next ==
    \/ SeekStart
    \/ ReadIdent
    \/ CheckMagic
    \/ ReadFileHeader
    \/ SeekShoff
    \/ ReadSectionHeader
    \/ LoadSectionData
    \/ ResolveName
    \/ InsertSection
    \/ ReturnOk

Spec == Init /\ [][Next]_vars

\* ------------------------------------------------------------------------
\* File::parse on a source whose seeks and reads may return an error
\* ------------------------------------------------------------------------

\* Line 71: the Result of r.seek(SeekFrom::Start(0)) is dropped; after an
\* Err the cursor is where the caller left it and parse reads on.
SeekStartFails ==
    /\ pc = "seek0"
    /\ faulted' = TRUE
    /\ pc' = "ident"
    /\ UNCHANGED <<src, pos, eident, id, hdr, name_idxs, sections_lst,
                   sections_data, i, sections, result, file, hi>>

\* Line 73: try!(r.read(&mut eident)) returns the Err.
ReadIdentFails ==
    /\ pc = "ident"
    /\ faulted' = TRUE
    /\ Fail("io error")
    /\ UNCHANGED <<src, pos, eident, id, hdr, name_idxs, sections_lst,
                   sections_data, i, sections, file, hi>>

\* Lines 84-112 and 133-154: try!(read_uN!(data, r)) returns the Err of a
\* field read; data is valid, or the macro returns before it reads.
FieldReadFails ==
    /\ pc \in {"hdr", "shdr"}
    /\ id.data \in {ELFDATA2LSB, ELFDATA2MSB}
    /\ faulted' = TRUE
    /\ Fail("io error")
    /\ UNCHANGED <<src, pos, eident, id, hdr, name_idxs, sections_lst,
                   sections_data, i, sections, file, hi>>

\* Line 119: try!(r.seek(SeekFrom::Start(shoff))) returns the Err.
SeekShoffFails ==
    /\ pc = "shseek"
    /\ faulted' = TRUE
    /\ Fail("io error")
    /\ UNCHANGED <<src, pos, eident, id, hdr, name_idxs, sections_lst,
                   sections_data, i, sections, file, hi>>

\* Line 176: try!(r.seek(SeekFrom::Start(off))) returns the Err.
SectionSeekFails ==
    /\ pc = "load"
    /\ faulted' = TRUE
    /\ Fail("io error")
    /\ UNCHANGED <<src, pos, eident, id, hdr, name_idxs, sections_lst,
                   sections_data, i, sections, file, hi>>

\* Line 177: an Err item of r.bytes() is unwrapped: a panic.
SectionReadFails ==
    /\ pc = "load"
    /\ faulted' = TRUE
    /\ Fail("panic: unwrap on Err")
    /\ UNCHANGED <<src, pos, eident, id, hdr, name_idxs, sections_lst,
                   sections_data, i, sections, file, hi>>

NextIO ==
    \/ Next
    \/ SeekStartFails
    \/ ReadIdentFails
    \/ FieldReadFails
    \/ SeekShoffFails
    \/ SectionSeekFails
    \/ SectionReadFails

SpecIO == Init /\ [][NextIO]_vars

\* ------------------------------------------------------------------------
\* Properties
\* ------------------------------------------------------------------------

IsPanic(r) ==
    r \in {"panic: index out of bounds", "panic: arithmetic overflow",
           "panic: unwrap on Err"}

\* The source starts with the magic sequence.
SourceMagic == Len(src) >= 4 /\ SubSeq(src, 1, 4) = ELFMAG

\* The 32-bit value at offset off of the source in the byte order of the
\* identification block, zero-extended to 64 bits, stated on the bytes.
ZeroExtended32At(off) ==
    IF id.data = ELFDATA2LSB
    THEN <<src[off + 1], src[off + 2], src[off + 3], src[off + 4], 0, 0, 0, 0>>
    ELSE <<src[off + 4], src[off + 3], src[off + 2], src[off + 1], 0, 0, 0, 0>>

\* The name the specification gives the offset start of the string table
\* tab: up to the first zero byte, or to the end of tab without one.
SpecifiedName(tab, start) ==
    LET stops == {j \in start..(Len(tab) - 1) : tab[j + 1] = 0}
        end == IF stops = {} THEN Len(tab)
               ELSE CHOOSE j \in stops : \A k \in stops : j <= k
    IN  SubSeq(tab, start + 1, end)

\* The last record of the header table that resolved to the name n.
LastNamed(n) ==
    CHOOSE k \in 1..Len(sections_lst) :
        /\ sections_lst[k].name = n
        /\ \A j \in (k + 1)..Len(sections_lst) : sections_lst[j].name # n

\* C1: in every File returned, the payload of every section is as long as
\* the size field of its header.
C1_PayloadLengthIsSize ==
    file.present =>
        \A n \in DOMAIN file.sections :
            Len(file.sections[n].data) = ToUsize(file.sections[n].hdr.size)

\* C2: when a section header declares more bytes than the source has from
\* its offset, parse ends with an I/O error and no File, and no payload
\* shorter than its declared size is ever kept.
C2_ShortSectionIsIoError ==
    /\ \A k \in 1..Len(sections_data) :
            Len(sections_data[k]) = ToUsize(sections_lst[k].size)
    /\ (/\ pc = "done"
        /\ \E k \in 1..Len(sections_lst) :
               ToUsize(sections_lst[k].offset) + ToUsize(sections_lst[k].size)
                   > Len(src))
           => (result = "UnexpectedEof" /\ ~file.present)

\* C3: every resolved name is the bytes of the string table from the name
\* offset up to the first zero byte, or up to the end of the table when no
\* zero byte follows, and a missing terminator does not fail the decode.
C3_NameUpToTerminatorOrEnd ==
    /\ result # "panic: arithmetic overflow"
    /\ (pc \in {"insert", "ret"} \/ result = "ok") =>
            \A k \in 1..Len(sections_lst) :
                sections_lst[k].name =
                    SpecifiedName(sections_data[hdr.shstrndx + 1],
                                  ToUsize(name_idxs[k]))

\* C4: a string-table index at or past a section count above 0 ends parse
\* with a returned error: no panic and no File.
C4_StrndxOutOfRangeIsReturnedError ==
    (pc = "done" /\ hdr.shnum > 0 /\ hdr.shstrndx >= hdr.shnum)
        => (~IsPanic(result) /\ result # "ok" /\ ~file.present)

\* C5: when the first 4 bytes of the source are not the magic sequence,
\* parse ends with "invalid magic number", returns no File and consumes no
\* byte past the 16 of the identification block.
C5_BadMagicFails ==
    ~SourceMagic =>
        /\ hi <= EI_NIDENT
        /\ ~file.present
        /\ pc = "done" => result = "invalid magic number"

C5_Witness ==
    /\ pc = "done"
    /\ result = "invalid magic number"
    /\ Len(src) > EI_NIDENT
    /\ SubSeq(src, 1, 3) = SubSeq(ELFMAG, 1, 3)
    /\ ~SourceMagic

\* The class or the data byte of the identification block is not 1 or 2.
BadClassOrData ==
    \/ eident[EI_CLASS + 1] \notin {ELFCLASS32, ELFCLASS64}
    \/ eident[EI_DATA + 1] \notin {ELFDATA2LSB, ELFDATA2MSB}

\* C6 as claimed: with a valid magic number and a class or data byte that
\* is not 1 or 2, parse ends with "invalid class" or the invalid-encoding
\* error and returns no File.
C6_BadClassOrDataIsMalformedError ==
    (pc = "done" /\ SourceMagic /\ BadClassOrData)
        => (result \in {"invalid class", "invalid endianness"} /\ ~file.present)

\* C6 amended: with a valid magic number and a class or data byte that is
\* not 1 or 2, parse returns no File and ends with "invalid endianness"
\* when the data byte is invalid; otherwise with "invalid class" when the
\* 8 bytes of type, machine and version follow the identification block
\* (the source has 24 bytes), and with the I/O error of the short read when
\* they do not.
C6_BadClassOrDataFails ==
    (pc = "done" /\ SourceMagic /\ BadClassOrData)
        => /\ ~file.present
           /\ result =
                IF eident[EI_DATA + 1] \notin {ELFDATA2LSB, ELFDATA2MSB}
                THEN "invalid endianness"
                ELSE IF Len(src) >= EI_NIDENT + 8 THEN "invalid class"
                ELSE "UnexpectedEof"

C6_Witness ==
    /\ pc = "done"
    /\ SourceMagic
    /\ eident[EI_CLASS + 1] \notin {ELFCLASS32, ELFCLASS64}
    /\ eident[EI_DATA + 1] \in {ELFDATA2LSB, ELFDATA2MSB}
    /\ Len(src) >= EI_NIDENT + 8
    /\ result = "invalid class"

\* C7: every error of a seek or a read of the source is the result of
\* parse, and no File is returned.
C7_IoErrorsPropagate ==
    (pc = "done" /\ faulted) => (result = "io error" /\ ~file.present)

\* C8: the sections of a returned File are keyed by the distinct resolved
\* names of the header records, as many entries as distinct names, and
\* each name holds the header and the payload of the last record that
\* resolved to it.
C8_LastRecordOfEachName ==
    result = "ok" =>
        LET names == {sections_lst[k].name : k \in 1..Len(sections_lst)}
        IN  /\ Len(sections_lst) = hdr.shnum
            /\ DOMAIN file.sections = names
            /\ Cardinality(DOMAIN file.sections) = Cardinality(names)
            /\ \A n \in names :
                    file.sections[n] =
                        [hdr |-> sections_lst[LastNamed(n)],
                         data |-> sections_data[LastNamed(n)]]

C8_Witness ==
    /\ result = "ok"
    /\ Len(sections_lst) = 2
    /\ sections_lst[1].name = sections_lst[2].name
    /\ sections_lst[1].size # sections_lst[2].size
    /\ sections_data[1] # sections_data[2]

\* The identification block and the file header are well formed and
\* complete, stated on the bytes of the source.
WellFormedHeader ==
    /\ SourceMagic
    /\ Len(src) > EI_DATA
    /\ src[EI_CLASS + 1] \in {ELFCLASS32, ELFCLASS64}
    /\ src[EI_DATA + 1] \in {ELFDATA2LSB, ELFDATA2MSB}
    /\ Len(src) >= EhdrSize(src[EI_CLASS + 1])

\* The section count of a well-formed header is 0: both bytes of shnum.
ShnumIsZero ==
    /\ src[EhdrSize(src[EI_CLASS + 1]) - 3] = 0
    /\ src[EhdrSize(src[EI_CLASS + 1]) - 2] = 0

\* C9: a well-formed header with section count 0 decodes to a File with
\* the header populated and no section, whatever the string-table index.
C9_NoSectionsIsEmptyFile ==
    (pc = "done" /\ WellFormedHeader /\ ShnumIsZero)
        => /\ result = "ok"
           /\ file.present
           /\ DOMAIN file.sections = {}
           /\ file.hdr.class = src[EI_CLASS + 1]
           /\ file.hdr.data = src[EI_DATA + 1]
           /\ Len(file.hdr.entrypoint) = 8

C9_Witness ==
    /\ pc = "done"
    /\ WellFormedHeader
    /\ ShnumIsZero
    /\ hdr.shstrndx > 0
    /\ result = "ok"

\* C10: with class 32-bit, the entry point and the address, offset and
\* size of every section are the 32-bit values of the source in the
\* selected byte order, zero-extended to 64 bits.
C10_ZeroExtension ==
    (id.class = ELFCLASS32 /\ hdr # NoHeader)
        => /\ hdr.entry = ZeroExtended32At(EI_NIDENT + 8)
           /\ \A k \in 1..Len(sections_lst) :
                LET at == ToUsize(hdr.shoff) + (k - 1) * 40
                IN  /\ sections_lst[k].addr = ZeroExtended32At(at + 12)
                    /\ sections_lst[k].offset = ZeroExtended32At(at + 16)
                    /\ sections_lst[k].size = ZeroExtended32At(at + 20)
           /\ file.present =>
                /\ file.hdr.entrypoint = ZeroExtended32At(EI_NIDENT + 8)
                /\ \A n \in DOMAIN file.sections :
                        \E k \in 1..Len(sections_lst) :
                            file.sections[n].hdr = sections_lst[k]

C10_Witness ==
    /\ result = "ok"
    /\ id.class = ELFCLASS32
    /\ id.data = ELFDATA2MSB
    /\ file.hdr.entrypoint[4] >= 128
    /\ \E n \in DOMAIN file.sections :
            /\ file.sections[n].hdr.addr[4] >= 128
            /\ file.sections[n].hdr.offset[4] >= 128
            /\ file.sections[n].hdr.size[4] >= 128

====
